---- MODULE Spec2Model ----
(***************************************************************************)
(* Ring:bit line follower firmware (src/main.rs).                          *)
(*                                                                         *)
(* Three execution contexts share one core: `main` (initialisation, then   *)
(* the button polling loop), the TIMER0 interrupt handler (the control     *)
(* cycle) and the TIMER1 interrupt handler (display refresh).  Both        *)
(* interrupts keep the reset priority, so a handler runs to completion     *)
(* with respect to the other handler and to main.  The TIMER0 peripheral,  *)
(* the PPI routes and the two GPIOTE output channels run beside the CPU.   *)
(***************************************************************************)
EXTENDS Integers, Sequences, FiniteSets, TLC

\* ------------------------------------------------------------------ types

\* Option<T>: None is the empty sequence, Some(x) the one-element sequence.
None == <<>>
Some(x) == <<x>>
IsSome(o) == Len(o) = 1
Unwrap(o) == o[1]

I16_MIN == -32768
I16_MAX == 32767

\* ------------------------------------------------------------------ icons

BLANK ==
  << <<0, 0, 0, 0, 0>>,
     <<0, 0, 0, 0, 0>>,
     <<0, 0, 0, 0, 0>>,
     <<0, 0, 0, 0, 0>>,
     <<0, 0, 0, 0, 0>> >>

SMILE ==
  << <<0, 1, 0, 1, 0>>,
     <<1, 0, 1, 0, 1>>,
     <<0, 0, 1, 0, 0>>,
     <<1, 0, 0, 0, 1>>,
     <<0, 1, 1, 1, 0>> >>

ARROW_LEFT ==
  << <<0, 0, 1, 0, 0>>,
     <<0, 1, 0, 0, 0>>,
     <<1, 1, 1, 1, 1>>,
     <<0, 1, 0, 0, 0>>,
     <<0, 0, 1, 0, 0>> >>

ARROW_RIGHT ==
  << <<0, 0, 1, 0, 0>>,
     <<0, 0, 0, 1, 0>>,
     <<1, 1, 1, 1, 1>>,
     <<0, 0, 0, 1, 0>>,
     <<0, 0, 1, 0, 0>> >>

ARROW_DOWN ==
  << <<0, 0, 1, 0, 0>>,
     <<0, 0, 1, 0, 0>>,
     <<1, 0, 1, 0, 1>>,
     <<0, 1, 1, 1, 0>>,
     <<0, 0, 1, 0, 0>> >>

ARROW_UP ==
  << <<0, 0, 1, 0, 0>>,
     <<0, 1, 1, 1, 0>>,
     <<1, 0, 1, 0, 1>>,
     <<0, 0, 1, 0, 0>>,
     <<0, 0, 1, 0, 0>> >>

\* ------------------------------------------------------------------ drive commands

CarState == {"Stopped", "Forward", "Left", "Right", "Back"}

StateSpeed(s, l, r) == [state |-> s, lspeed |-> l, rspeed |-> r]

STATE_STOPPED == StateSpeed("Stopped", 1500, 1500)
STATE_FORWARD == StateSpeed("Forward", 2500, 500)
STATE_BACK == StateSpeed("Back", 500, 2500)
\* STATE_LEFT with the widths on the wrong wheels.
STATE_LEFT_swapped == StateSpeed("Left", 1500, 2500)
STATE_LEFT == StateSpeed("Left", 2500, 1500)
STATE_RIGHT == StateSpeed("Right", 1500, 500)

\* ------------------------------------------------------------------ bounds and inputs

\* Timer ticks (1 tick = 1 us) within which a deliverable TIMER0 interrupt is
\* taken and the handler's first register writes are done.
MaxIsrLatency == 20

\* The cycle counter saturates here.
MaxCycles == 2

\* Readings the converter may hand back: every bin boundary of the match in
\* TIMER0, the ends of i16 and zero.
SensorSamples == {I16_MIN, 0, 64, 65, 220, 221, 320, 321, I16_MAX}

\* The readings drawn in runs checked for progress, where the value read does
\* not bear on what is checked: a single reading, besides the failed read.
LiveSamples == {65}

\* Values of the history variable `held`: both buttons have been asserted
\* without a break since the Poller began its current iteration (HeldIterating),
\* or since it began an iteration that it has completed (HeldCompleted).
HeldNot == "no"
HeldIterating == "iterating"
HeldCompleted == "completed"

VARIABLES
  mainpc,          \* position of main
  btnA, btnB,      \* button levels: TRUE = the pin is low (pressed)
  held,            \* history: both buttons held without a break (see Held*)
  aSeen,           \* history: button A has been asserted at some time
  iterA, iterB,    \* results of the two is_low() calls of the current iteration
  iterOld,         \* history: ONOFF's value when the current iteration began
  ONOFF, SERVO_TIMER, DISPLAY, ANALOG,   \* the four shared cells
  nvic,            \* interrupts unmasked in the NVIC
  active,          \* the handler the core is executing, or "none"
  cs,              \* the context inside interrupt::free, or "none"
  cc0, cc1, cc2,   \* TIMER0 compare registers
  cnt,             \* TIMER0 counter
  running,         \* TIMER0 started
  shorts,          \* TIMER0 SHORTS
  inten,           \* TIMER0 INTENSET bit 16 (COMPARE0)
  events_compare0, \* TIMER0 EVENTS_COMPARE[0]
  ppi,             \* enabled PPI routes <<compare index, gpiote channel>>
  out0, out1,      \* levels of the two servo pins (GPIOTE channels 0 and 1)
  t0pc,            \* position of the TIMER0 handler
  CUR_STATE, PHOTO_CELL, IS_ON,   \* the TIMER0 handler's statics
  shown,           \* the image last handed to display.show
  t1event,         \* the display timer's event is pending
  cycles,          \* history: TIMER0 invocations begun, saturating
  decided,         \* history: command decided by the latest cycle
  prevDecided,     \* history: command decided by the cycle before
  lastRead,        \* history: outcome of the latest converter read
  offCycles,       \* history: cycles begun since the flag last became false
                   \*          (0, 1, or 2 for two or more)
  detail           \* fixed per run: TRUE = the history variables are recorded
                   \*          and readings range over SensorSamples

vars ==
  << mainpc, btnA, btnB, held, aSeen, iterA, iterB, iterOld, ONOFF, SERVO_TIMER, DISPLAY,
     ANALOG, nvic, active, cs, cc0, cc1, cc2, cnt, running, shorts, inten,
     events_compare0, ppi, out0, out1, t0pc, CUR_STATE, PHOTO_CELL, IS_ON, shown,
     t1event, cycles, decided, prevDecided, lastRead, offCycles, detail >>

mainVars == << mainpc, iterA, iterB, iterOld >>
btnVars == << btnA, btnB, held, aSeen >>
cellVars == << ONOFF, SERVO_TIMER, DISPLAY, ANALOG >>
cpuVars == << nvic, active, cs >>
timerVars == << cc0, cc1, cc2, cnt, running, shorts, inten, events_compare0 >>
pinVars == << ppi, out0, out1 >>
cycleVars == << t0pc, CUR_STATE, PHOTO_CELL, IS_ON >>
histVars == << cycles, decided, prevDecided, lastRead, offCycles, detail >>

\* The value a history variable takes in a step: recorded in detailed runs,
\* left as it is otherwise.
Rec(new, old) == IF detail THEN new ELSE old

\* The device after reset, before main's first statement.
Reset ==
  /\ mainpc = "take"
  /\ btnA \in BOOLEAN /\ btnB \in BOOLEAN
  /\ held = HeldNot
  /\ aSeen = (detail /\ btnA)
  /\ iterA = FALSE /\ iterB = FALSE /\ iterOld = FALSE
  /\ ONOFF = None /\ SERVO_TIMER = None /\ DISPLAY = None /\ ANALOG = None
  /\ nvic = {} /\ active = "none" /\ cs = "none"
  /\ cc0 = 0 /\ cc1 = 0 /\ cc2 = 0 /\ cnt = 0
  /\ running = FALSE /\ shorts = 0 /\ inten = FALSE /\ events_compare0 = 0
  /\ ppi = {} /\ out0 = 0 /\ out1 = 0
  /\ t0pc = "idle"
  /\ CUR_STATE = STATE_STOPPED /\ PHOTO_CELL = 0 /\ IS_ON = FALSE
  /\ shown = BLANK
  /\ t1event = FALSE
  /\ cycles = 0 /\ decided = "none" /\ prevDecided = "none"
  /\ lastRead = "none"
  /\ offCycles = 0

Init == detail = TRUE /\ Reset

\* The same reset state for the runs checked for progress.
InitLive == detail = FALSE /\ Reset

\* ------------------------------------------------------------------ main: start-up

\* main runs only while no handler is executing.
MainRuns == active = "none" /\ cs = "none"

\* main is inside interrupt::free.
MainInCs == active = "none" /\ cs = "main"

\* main enters interrupt::free: interrupts are disabled until the closure ends.
MainEnterCs ==
  /\ MainRuns /\ mainpc \in {"populate", "publish_a", "publish_b"}
  /\ cs' = "main"
  /\ UNCHANGED << mainVars, btnVars, cellVars, nvic, active, timerVars, pinVars,
                  cycleVars, shown, t1event, histVars >>

\* MainTake with the flag cell filled before the board is looked at.
MainTake_publishesFirst ==
  /\ MainRuns /\ mainpc = "take"
  /\ ONOFF' = Some(FALSE)
  /\ \E taken \in BOOLEAN :
       mainpc' = IF taken THEN "gpiote" ELSE "halted"
  /\ UNCHANGED << iterA, iterB, iterOld, btnVars, SERVO_TIMER, DISPLAY, ANALOG,
                  cpuVars, timerVars, pinVars, cycleVars, shown, t1event,
                  histVars >>

\* Board::take(): Some(board) leads into the initialisation, None falls through
\* to panic!("End"), which panic_halt turns into an endless idle loop.
\* Display::new(board.TIMER1, ..) starts the display timer.
MainTake ==
  /\ MainRuns /\ mainpc = "take"
  /\ \E taken \in BOOLEAN :
       mainpc' = IF taken THEN "gpiote" ELSE "halted"
  /\ UNCHANGED << iterA, iterB, iterOld, btnVars, cellVars, cpuVars, timerVars,
                  pinVars, cycleVars, shown, t1event, histVars >>

\* A GPIOTE OUT task on a channel configured with TaskOutPolarity::Toggle.
Toggle(level) == 1 - level

\* Both channels: init_low(), then one OUT task each, which raises the pin.
MainGpiote ==
  /\ MainRuns /\ mainpc = "gpiote"
  /\ out0' = Toggle(0)
  /\ out1' = Toggle(0)
  /\ mainpc' = "ppi"
  /\ UNCHANGED << iterA, iterB, iterOld, btnVars, cellVars, cpuVars, timerVars,
                  ppi, cycleVars, shown, t1event, histVars >>

\* PpiRoutes with ppi3 listening to compare[1] instead of compare[2].
PpiRoutes_sharedCompare == { <<0, 0>>, <<1, 0>>, <<0, 1>>, <<1, 1>> }

\* ppi0..ppi3: <<compare event of TIMER0, GPIOTE channel whose OUT task it fires>>.
PpiRoutes == { <<0, 0>>, <<1, 0>>, <<0, 1>>, <<2, 1>> }

MainPpi ==
  /\ MainRuns /\ mainpc = "ppi"
  /\ ppi' = PpiRoutes
  /\ mainpc' = "timer_cfg"
  /\ UNCHANGED << iterA, iterB, iterOld, btnVars, cellVars, cpuVars, timerVars,
                  out0, out1, cycleVars, shown, t1event, histVars >>

PERIOD == 20000
NEUTRAL == 1500

\* MainTimerCfg without the COMPARE0_CLEAR short.
MainTimerCfg_noShort ==
  /\ MainRuns /\ mainpc = "timer_cfg"
  /\ cc0' = PERIOD
  /\ shorts' = 0
  /\ cc1' = NEUTRAL
  /\ cc2' = NEUTRAL
  /\ mainpc' = "timer_start"
  /\ UNCHANGED << iterA, iterB, iterOld, btnVars, cellVars, cpuVars, cnt, running,
                  inten, events_compare0, pinVars, cycleVars, shown, t1event,
                  histVars >>

\* mode, bitmode, cc[0], shorts, cc[1], cc[2].
MainTimerCfg ==
  /\ MainRuns /\ mainpc = "timer_cfg"
  /\ cc0' = PERIOD
  /\ shorts' = 1
  /\ cc1' = NEUTRAL
  /\ cc2' = NEUTRAL
  /\ mainpc' = "timer_start"
  /\ UNCHANGED << iterA, iterB, iterOld, btnVars, cellVars, cpuVars, cnt, running,
                  inten, events_compare0, pinVars, cycleVars, shown, t1event,
                  histVars >>

MainTimerStart ==
  /\ MainRuns /\ mainpc = "timer_start"
  /\ running' = TRUE
  /\ mainpc' = "intenset"
  /\ UNCHANGED << iterA, iterB, iterOld, btnVars, cellVars, cpuVars, cc0, cc1, cc2,
                  cnt, shorts, inten, events_compare0, pinVars, cycleVars, shown,
                  t1event, histVars >>

MainIntenset ==
  /\ MainRuns /\ mainpc = "intenset"
  /\ inten' = TRUE
  /\ mainpc' = "populate"
  /\ UNCHANGED << iterA, iterB, iterOld, btnVars, cellVars, cpuVars, cc0, cc1, cc2,
                  cnt, running, shorts, events_compare0, pinVars, cycleVars, shown,
                  t1event, histVars >>

\* MainPopulate publishing the flag as enabled.
MainPopulate_enabled ==
  /\ MainInCs /\ mainpc = "populate"
  /\ cs' = "none"
  /\ ONOFF' = Some(TRUE)
  /\ SERVO_TIMER' = Some("TIMER0")
  /\ DISPLAY' = Some("display")
  /\ ANALOG' = Some("analog")
  /\ mainpc' = "unmask"
  /\ offCycles' = 0
  /\ UNCHANGED << iterA, iterB, iterOld, btnVars, nvic, active, timerVars, pinVars,
                  cycleVars, shown, t1event, cycles, decided, prevDecided, lastRead,
                  detail >>

\* MainPopulate leaving the sensor cell unset.
MainPopulate_withoutSensor ==
  /\ MainInCs /\ mainpc = "populate"
  /\ cs' = "none"
  /\ ONOFF' = Some(FALSE)
  /\ SERVO_TIMER' = Some("TIMER0")
  /\ DISPLAY' = Some("display")
  /\ ANALOG' = None
  /\ mainpc' = "unmask"
  /\ offCycles' = 0
  /\ UNCHANGED << iterA, iterB, iterOld, btnVars, nvic, active, timerVars,
                  pinVars, cycleVars, shown, t1event, cycles, decided, prevDecided, lastRead,
                  detail >>

\* The closure of the critical section fills the four cells.
MainPopulate ==
  /\ MainInCs /\ mainpc = "populate"
  /\ cs' = "none"
  /\ ONOFF' = Some(FALSE)
  /\ SERVO_TIMER' = Some("TIMER0")
  /\ DISPLAY' = Some("display")
  /\ ANALOG' = Some("analog")
  /\ mainpc' = "unmask"
  /\ offCycles' = 0
  /\ UNCHANGED << iterA, iterB, iterOld, btnVars, nvic, active, timerVars, pinVars,
                  cycleVars, shown, t1event, cycles, decided, prevDecided, lastRead,
                  detail >>

\* MainUnmask that leaves TIMER0 masked.
MainUnmask_displayOnly ==
  /\ MainRuns /\ mainpc = "unmask"
  /\ nvic' = {"TIMER1"}
  /\ mainpc' = "button_a"
  /\ UNCHANGED << iterA, iterB, iterOld, btnVars, cellVars, active, cs, timerVars,
                  pinVars, cycleVars, shown, t1event, histVars >>

\* NVIC::unmask(TIMER0); NVIC::unmask(TIMER1)
MainUnmask ==
  /\ MainRuns /\ mainpc = "unmask"
  /\ nvic' = {"TIMER0", "TIMER1"}
  /\ mainpc' = "button_a"
  /\ UNCHANGED << iterA, iterB, iterOld, btnVars, cellVars, active, cs, timerVars,
                  pinVars, cycleVars, shown, t1event, histVars >>

\* ------------------------------------------------------------------ main: the polling loop

\* The test of button A inverted: the loop publishes true while A is released.
MainButtonA_inverted ==
  /\ MainRuns /\ mainpc = "button_a"
  /\ iterA' = btnA
  /\ iterOld' = Rec(Unwrap(ONOFF), iterOld)
  /\ held' = Rec(IF btnA /\ btnB /\ held = HeldNot THEN HeldIterating ELSE held, held)
  /\ mainpc' = IF ~btnA THEN "publish_a" ELSE "button_b"
  /\ UNCHANGED << iterB, btnA, btnB, aSeen, cellVars, cpuVars, timerVars, pinVars,
                  cycleVars, shown, t1event, histVars >>

\* button_a.is_low()
MainButtonA ==
  /\ MainRuns /\ mainpc = "button_a"
  /\ iterA' = btnA
  /\ iterOld' = Rec(Unwrap(ONOFF), iterOld)
  /\ held' = Rec(IF btnA /\ btnB /\ held = HeldNot THEN HeldIterating ELSE held, held)
  /\ mainpc' = IF btnA THEN "publish_a" ELSE "button_b"
  /\ UNCHANGED << iterB, btnA, btnB, aSeen, cellVars, cpuVars, timerVars, pinVars,
                  cycleVars, shown, t1event, histVars >>

\* The closure of interrupt::free(|cs| *ONOFF = Some(true)), and its end.
MainPublishA ==
  /\ MainInCs /\ mainpc = "publish_a"
  /\ cs' = "none"
  /\ ONOFF' = Some(TRUE)
  /\ mainpc' = "button_b"
  /\ offCycles' = 0
  /\ UNCHANGED << iterA, iterB, iterOld, btnVars, SERVO_TIMER, DISPLAY, ANALOG,
                  nvic, active, timerVars, pinVars, cycleVars, shown, t1event,
                  cycles, decided, prevDecided, lastRead,
                  detail >>

\* MainButtonB as the `else` of the button A test: B is looked at only when
\* A was not asserted.
MainButtonB_elseIf ==
  /\ MainRuns /\ mainpc = "button_b"
  /\ iterB' = btnB
  /\ mainpc' = IF btnB /\ ~iterA THEN "publish_b" ELSE "button_a"
  /\ UNCHANGED << iterA, iterOld, btnVars, cellVars, cpuVars, timerVars, pinVars,
                  cycleVars, shown, t1event, histVars >>

\* button_b.is_low()
MainButtonB ==
  /\ MainRuns /\ mainpc = "button_b"
  /\ iterB' = btnB
  /\ mainpc' = IF btnB THEN "publish_b" ELSE "button_a"
  /\ UNCHANGED << iterA, iterOld, btnVars, cellVars, cpuVars, timerVars, pinVars,
                  cycleVars, shown, t1event, histVars >>

\* MainPublishB writing the cell without interrupt::free around it.
MainPublishB_noCriticalSection ==
  /\ MainRuns /\ mainpc = "publish_b"
  /\ ONOFF' = Some(FALSE)
  /\ held' = Rec(IF held = HeldNot THEN HeldNot ELSE HeldCompleted, held)
  /\ mainpc' = "button_a"
  /\ offCycles' = Rec(IF ONOFF = Some(FALSE) THEN offCycles ELSE 0, offCycles)
  /\ UNCHANGED << iterA, iterB, iterOld, btnA, btnB, aSeen, SERVO_TIMER, DISPLAY,
                  ANALOG,
                  cpuVars, timerVars, pinVars, cycleVars, shown, t1event,
                  cycles, decided, prevDecided, lastRead,
                  detail >>

MainPublishB ==
  /\ MainInCs /\ mainpc = "publish_b"
  /\ cs' = "none"
  /\ ONOFF' = Some(FALSE)
  /\ held' = Rec(IF held = HeldNot THEN HeldNot ELSE HeldCompleted, held)
  /\ mainpc' = "button_a"
  /\ offCycles' = Rec(IF ONOFF = Some(FALSE) THEN offCycles ELSE 0, offCycles)
  /\ UNCHANGED << iterA, iterB, iterOld, btnA, btnB, aSeen, SERVO_TIMER, DISPLAY,
                  ANALOG,
                  nvic, active, timerVars, pinVars, cycleVars, shown, t1event,
                  cycles, decided, prevDecided, lastRead,
                  detail >>

main ==
  \/ MainTake \/ MainGpiote \/ MainPpi \/ MainTimerCfg \/ MainTimerStart
  \/ MainIntenset \/ MainEnterCs \/ MainPopulate \/ MainUnmask
  \/ MainButtonA \/ MainPublishA \/ MainButtonB \/ MainPublishB

\* ------------------------------------------------------------------ environment

\* A button is pressed or released.
ButtonChange ==
  /\ \/ btnA' = ~btnA /\ btnB' = btnB
     \/ btnB' = ~btnB /\ btnA' = btnA
  /\ held' = HeldNot
  /\ aSeen' = Rec(aSeen \/ btnA', aSeen)
  /\ UNCHANGED << mainVars, cellVars, cpuVars, timerVars, pinVars, cycleVars,
                  shown, t1event, histVars >>

\* The display's own timer raises its event (it runs since Display::new).
Timer1Fire ==
  /\ mainpc \notin {"take", "halted"}
  /\ ~t1event
  /\ t1event' = TRUE
  /\ UNCHANGED << mainVars, btnVars, cellVars, cpuVars, timerVars, pinVars,
                  cycleVars, shown, histVars >>

\* ------------------------------------------------------------------ TIMER0 peripheral

\* bitmode 0: a 16 bit counter.
TIMER_WRAP == 65536

Min(S) == CHOOSE x \in S : \A y \in S : x <= y

\* The TIMER0 interrupt line: COMPARE0 event set, enabled in INTENSET, unmasked.
Irq0 == events_compare0 = 1 /\ inten /\ "TIMER0" \in nvic

\* The next counter value at which something can happen: a compare match, the
\* latest moment a deliverable interrupt is taken, or the wrap of the counter.
NextPoint == Min({p \in {MaxIsrLatency, cc0, cc1, cc2, TIMER_WRAP} : p > cnt})

\* OUT tasks fired on `channel` when the counter reaches `t`.
Tasks(channel, t) ==
  Cardinality({r \in ppi : r[2] = channel /\ << cc0, cc1, cc2 >>[r[1] + 1] = t})

\* The counter runs to its next point.  Compare matches there fire their PPI
\* routes (each toggles a pin); COMPARE0 also sets its event and, through the
\* short, clears the counter.  Time does not pass the interrupt latency while
\* the TIMER0 interrupt is deliverable, nor the end of the period while the
\* TIMER0 handler is still running or while main is still between tasks_start
\* and NVIC::unmask (a few register writes against a period of 20 ms).
TimerAdvance ==
  /\ running
  /\ Irq0 => NextPoint <= MaxIsrLatency
  /\ active = "TIMER0" => NextPoint # cc0
  /\ mainpc \in {"intenset", "populate", "unmask"} => NextPoint # cc0
  /\ out0' = (out0 + Tasks(0, NextPoint)) % 2
  /\ out1' = (out1 + Tasks(1, NextPoint)) % 2
  /\ events_compare0' = IF NextPoint = cc0 THEN 1 ELSE events_compare0
  /\ cnt' = IF (NextPoint = cc0 /\ shorts % 2 = 1) \/ NextPoint = TIMER_WRAP
            THEN 0 ELSE NextPoint
  /\ UNCHANGED << mainVars, btnVars, cellVars, cpuVars, cc0, cc1, cc2, running,
                  shorts, inten, ppi, cycleVars, shown, t1event, histVars >>

\* ------------------------------------------------------------------ TIMER0 handler

\* What analog.converter.read(&mut analog.pin) can return.
ReadResults ==
  {[ok |-> TRUE, v |-> v] : v \in IF detail THEN SensorSamples ELSE LiveSamples}
    \cup {[ok |-> FALSE, v |-> 0]}

\* Classify with each upper end taken exclusive (`..64` for `..=64`).
Classify_exclusiveEnds(v) ==
  CASE v \in I16_MIN..63 -> STATE_LEFT
    [] v \in 64..219 -> STATE_FORWARD
    [] v \in 220..319 -> STATE_BACK
    [] v \in 320..I16_MAX -> STATE_RIGHT

\* The match on PHOTO_CELL.
Classify(v) ==
  CASE v \in I16_MIN..64 -> STATE_LEFT
    [] v \in 65..220 -> STATE_FORWARD
    [] v \in 221..320 -> STATE_BACK
    [] v \in 321..I16_MAX -> STATE_RIGHT

\* display with the two vertical arrows exchanged.
display_arrowsExchanged(cstate) ==
  IF IsSome(DISPLAY)
  THEN CASE cstate = "Stopped" -> SMILE
         [] cstate = "Forward" -> ARROW_UP
         [] cstate = "Back" -> ARROW_DOWN
         [] cstate = "Left" -> ARROW_LEFT
         [] cstate = "Right" -> ARROW_RIGHT
  ELSE shown

\* display(cstate): the image on the display after the call.
display(cstate) ==
  IF IsSome(DISPLAY)
  THEN CASE cstate = "Stopped" -> SMILE
         [] cstate = "Forward" -> ARROW_DOWN
         [] cstate = "Back" -> ARROW_UP
         [] cstate = "Left" -> ARROW_LEFT
         [] cstate = "Right" -> ARROW_RIGHT
  ELSE shown

\* T0Write without the write that acknowledges COMPARE0.
T0Write_noAcknowledge ==
  /\ active = "none" /\ cs = "none" /\ Irq0
  /\ t0pc = "idle"
  /\ active' = "TIMER0"
  /\ cs' = "TIMER0"
  /\ IF IsSome(SERVO_TIMER)
     THEN /\ cc1' = CUR_STATE.lspeed
          /\ cc2' = CUR_STATE.rspeed
     ELSE UNCHANGED << cc1, cc2 >>
  /\ t0pc' = "adc"
  /\ cycles' = Rec(IF cycles < MaxCycles THEN cycles + 1 ELSE cycles, cycles)
  /\ offCycles' = Rec(IF ONOFF # Some(FALSE) THEN 0
                     ELSE IF offCycles < 2 THEN offCycles + 1 ELSE 2, offCycles)
  /\ UNCHANGED << mainVars, btnVars, cellVars, nvic, cc0, cnt, running, shorts,
                  inten, events_compare0, pinVars, CUR_STATE, PHOTO_CELL, IS_ON,
                  shown, t1event, decided, prevDecided, lastRead,
                  detail >>

\* Handler entry and the first statements inside interrupt::free: cc[1], cc[2]
\* take the speeds of the command held in the static, COMPARE0 is acknowledged.
T0Write ==
  /\ active = "none" /\ cs = "none" /\ Irq0
  /\ t0pc = "idle"
  /\ active' = "TIMER0"
  /\ cs' = "TIMER0"
  /\ IF IsSome(SERVO_TIMER)
     THEN /\ cc1' = CUR_STATE.lspeed
          /\ cc2' = CUR_STATE.rspeed
          /\ events_compare0' = 0
     ELSE UNCHANGED << cc1, cc2, events_compare0 >>
  /\ t0pc' = "adc"
  /\ cycles' = Rec(IF cycles < MaxCycles THEN cycles + 1 ELSE cycles, cycles)
  /\ offCycles' = Rec(IF ONOFF # Some(FALSE) THEN 0
                     ELSE IF offCycles < 2 THEN offCycles + 1 ELSE 2, offCycles)
  /\ UNCHANGED << mainVars, btnVars, cellVars, nvic, cc0, cnt, running, shorts,
                  inten, pinVars, CUR_STATE, PHOTO_CELL, IS_ON, shown, t1event,
                  decided, prevDecided, lastRead,
                  detail >>

\* T0Adc with `Err(_e) => {}`: a failed read keeps the previous reading.
T0Adc_keepsOnErr ==
  /\ t0pc = "adc"
  /\ IF IsSome(ANALOG)
     THEN \E r \in ReadResults :
            /\ PHOTO_CELL' = IF r.ok THEN r.v ELSE PHOTO_CELL
            /\ lastRead' = Rec(IF r.ok THEN "ok" ELSE "err", lastRead)
     ELSE UNCHANGED << PHOTO_CELL, lastRead >>
  /\ t0pc' = "flag"
  /\ UNCHANGED << mainVars, btnVars, cellVars, cpuVars, timerVars, pinVars,
                  CUR_STATE, IS_ON, shown, t1event, cycles, decided,
                  prevDecided, offCycles,
                  detail >>

\* T0Adc with the critical section closed after the conversion, the flag read
\* left outside it.
T0Adc_endsCriticalSection ==
  /\ t0pc = "adc"
  /\ IF IsSome(ANALOG)
     THEN \E r \in ReadResults :
            /\ PHOTO_CELL' = IF r.ok THEN r.v ELSE 0
            /\ lastRead' = Rec(IF r.ok THEN "ok" ELSE "err", lastRead)
     ELSE UNCHANGED << PHOTO_CELL, lastRead >>
  /\ cs' = "none"
  /\ t0pc' = "flag"
  /\ UNCHANGED << mainVars, btnVars, cellVars, nvic, active, timerVars, pinVars,
                  CUR_STATE, IS_ON, shown, t1event, cycles, decided,
                  prevDecided, offCycles,
                  detail >>

\* The blocking conversion: Ok(v) is stored, Err(_) stores 0.
T0Adc ==
  /\ t0pc = "adc"
  /\ IF IsSome(ANALOG)
     THEN \E r \in ReadResults :
            /\ PHOTO_CELL' = IF r.ok THEN r.v ELSE 0
            /\ lastRead' = Rec(IF r.ok THEN "ok" ELSE "err", lastRead)
     ELSE UNCHANGED << PHOTO_CELL, lastRead >>
  /\ t0pc' = "flag"
  /\ UNCHANGED << mainVars, btnVars, cellVars, cpuVars, timerVars, pinVars,
                  CUR_STATE, IS_ON, shown, t1event, cycles, decided,
                  prevDecided, offCycles,
                  detail >>

\* The enable flag is copied into IS_ON; the critical section ends.
\* T0Flag that only ever sets the cached flag: a published false is not taken.
T0Flag_latchesOn ==
  /\ t0pc = "flag"
  /\ IS_ON' = IF IsSome(ONOFF) THEN (Unwrap(ONOFF) \/ IS_ON) ELSE IS_ON
  /\ cs' = "none"
  /\ t0pc' = "decide"
  /\ UNCHANGED << mainVars, btnVars, cellVars, nvic, active, timerVars, pinVars,
                  CUR_STATE, PHOTO_CELL, shown, t1event, histVars >>

T0Flag ==
  /\ t0pc = "flag"
  /\ IS_ON' = IF IsSome(ONOFF) THEN Unwrap(ONOFF) ELSE IS_ON
  /\ cs' = "none"
  /\ t0pc' = "decide"
  /\ UNCHANGED << mainVars, btnVars, cellVars, nvic, active, timerVars, pinVars,
                  CUR_STATE, PHOTO_CELL, shown, t1event, histVars >>

\* T0Decide without its else branch: a disabled cycle keeps the old command.
T0Decide_noElse ==
  /\ t0pc = "decide"
  /\ CUR_STATE' = IF IS_ON THEN Classify(PHOTO_CELL) ELSE CUR_STATE
  /\ decided' = Rec(CUR_STATE'.state, decided)
  /\ prevDecided' = Rec(decided, prevDecided)
  /\ t0pc' = "display"
  /\ UNCHANGED << mainVars, btnVars, cellVars, cpuVars, timerVars, pinVars,
                  PHOTO_CELL, IS_ON, shown, t1event, cycles, lastRead,
                  offCycles,
                  detail >>

\* T0Decide writing the new command's speeds to the compare registers at once.
T0Decide_appliesAtOnce ==
  /\ t0pc = "decide"
  /\ CUR_STATE' = IF IS_ON THEN Classify(PHOTO_CELL) ELSE STATE_STOPPED
  /\ cc1' = CUR_STATE'.lspeed
  /\ cc2' = CUR_STATE'.rspeed
  /\ decided' = Rec(CUR_STATE'.state, decided)
  /\ prevDecided' = Rec(decided, prevDecided)
  /\ t0pc' = "display"
  /\ UNCHANGED << mainVars, btnVars, cellVars, cpuVars, cc0, cnt, running,
                  shorts, inten, events_compare0, pinVars, PHOTO_CELL, IS_ON,
                  shown, t1event, cycles, lastRead,
                  offCycles,
                  detail >>

\* if *IS_ON { match PHOTO_CELL { .. } } else { *STATE = STATE_STOPPED }
T0Decide ==
  /\ t0pc = "decide"
  /\ CUR_STATE' = IF IS_ON THEN Classify(PHOTO_CELL) ELSE STATE_STOPPED
  /\ decided' = Rec(CUR_STATE'.state, decided)
  /\ prevDecided' = Rec(decided, prevDecided)
  /\ t0pc' = "display"
  /\ UNCHANGED << mainVars, btnVars, cellVars, cpuVars, timerVars, pinVars,
                  PHOTO_CELL, IS_ON, shown, t1event, cycles, lastRead,
                  offCycles,
                  detail >>

\* display(&STATE.state) enters its own interrupt::free.
T0DisplayEnterCs ==
  /\ t0pc = "display" /\ cs = "none"
  /\ cs' = "TIMER0"
  /\ UNCHANGED << mainVars, btnVars, cellVars, nvic, active, timerVars, pinVars,
                  cycleVars, shown, t1event, histVars >>

\* The closure of display(&STATE.state); then the handler returns.
T0Display ==
  /\ t0pc = "display" /\ cs = "TIMER0"
  /\ shown' = display(CUR_STATE.state)
  /\ cs' = "none"
  /\ t0pc' = "idle"
  /\ active' = "none"
  /\ UNCHANGED << mainVars, btnVars, cellVars, nvic, timerVars, pinVars,
                  CUR_STATE, PHOTO_CELL, IS_ON, t1event, histVars >>

TIMER0 ==
  \/ T0Write \/ T0Adc \/ T0Flag \/ T0Decide \/ T0DisplayEnterCs \/ T0Display

\* ------------------------------------------------------------------ TIMER1 handler

\* Handler entry, into interrupt::free.
T1Enter ==
  /\ active = "none" /\ cs = "none"
  /\ "TIMER1" \in nvic /\ t1event
  /\ active' = "TIMER1"
  /\ cs' = "TIMER1"
  /\ UNCHANGED << mainVars, btnVars, cellVars, nvic, timerVars, pinVars,
                  cycleVars, shown, t1event, histVars >>

\* T1Refresh that also clears the control cycle's sensor reading.
T1Refresh_clearsReading ==
  /\ active = "TIMER1"
  /\ t1event' = IF IsSome(DISPLAY) THEN FALSE ELSE t1event
  /\ PHOTO_CELL' = 0
  /\ cs' = "none"
  /\ active' = "none"
  /\ UNCHANGED << mainVars, btnVars, cellVars, nvic, timerVars, pinVars,
                  t0pc, CUR_STATE, IS_ON, shown, histVars >>

\* display.handle_display_event() serves the display timer's event; the
\* handler returns.
T1Refresh ==
  /\ active = "TIMER1"
  /\ t1event' = IF IsSome(DISPLAY) THEN FALSE ELSE t1event
  /\ cs' = "none"
  /\ active' = "none"
  /\ UNCHANGED << mainVars, btnVars, cellVars, nvic, timerVars, pinVars,
                  cycleVars, shown, histVars >>

TIMER1 == T1Enter \/ T1Refresh

\* ------------------------------------------------------------------ specification

Next == main \/ TIMER0 \/ TIMER1 \/ TimerAdvance \/ ButtonChange \/ Timer1Fire

Spec == Init /\ [][Next]_vars

\* The scheduling the device guarantees: the counter keeps counting; the core
\* keeps executing the context it is in (main, or a handler once entered); a
\* pending, unmasked interrupt is taken as soon as no critical section and no
\* handler is in the way, which main's loop allows again and again.
Fairness ==
  /\ WF_vars(TimerAdvance)
  /\ WF_vars(main)
  /\ SF_vars(TIMER0)
  /\ SF_vars(TIMER1)

FairSpec == InitLive /\ [][Next]_vars /\ Fairness

\* ------------------------------------------------------------------ tables the claims state

\* The classification table of the specification.
TableCommand(v) ==
  IF v <= 64 THEN "Left"
  ELSE IF v <= 220 THEN "Forward"
  ELSE IF v <= 320 THEN "Back"
  ELSE "Right"

\* The bins of the table that hold v.
TableBins(v) ==
  {b \in {"Left", "Forward", "Back", "Right"} :
     \/ b = "Left" /\ v <= 64
     \/ b = "Forward" /\ 65 <= v /\ v <= 220
     \/ b = "Back" /\ 221 <= v /\ v <= 320
     \/ b = "Right" /\ v >= 321}

\* The pulse widths <<left, right>> the specification fixes for a command.
TableWidths(c) ==
  CASE c = "Stopped" -> <<1500, 1500>>
    [] c = "Forward" -> <<2500, 500>>
    [] c = "Back" -> <<500, 2500>>
    [] c = "Left" -> <<2500, 1500>>
    [] c = "Right" -> <<1500, 500>>

\* The icon the specification fixes for a command.
TableIcon(c) ==
  CASE c = "Stopped" -> SMILE
    [] c = "Forward" -> ARROW_DOWN
    [] c = "Back" -> ARROW_UP
    [] c = "Left" -> ARROW_LEFT
    [] c = "Right" -> ARROW_RIGHT
    [] c = "none" -> BLANK

\* The handler has decided and not yet begun another cycle.
Decided == t0pc \in {"display", "idle"} /\ decided # "none"

\* ------------------------------------------------------------------ claims

\* C1: when the cached enable flag is true, the command a cycle decides is the
\* table's command for the sensor reading alone (Left up to 64, Forward 65..220,
\* Back 221..320, Right from 321), every reading lying in exactly one bin.
C1_Classification ==
  (Decided /\ IS_ON) =>
     /\ TableBins(PHOTO_CELL) = {TableCommand(PHOTO_CELL)}
     /\ CUR_STATE.state = TableCommand(PHOTO_CELL)
     /\ decided = TableCommand(PHOTO_CELL)

C1_Witness ==
  /\ t0pc = "display" /\ IS_ON
  /\ PHOTO_CELL = 221 /\ decided = "Back" /\ prevDecided = "Right"

\* C2: a cycle that read the enable flag as false decides Stopped, whatever the
\* reading (a failed read included) and whatever the previous command.
C2_DisabledStops ==
  /\ t0pc \in {"decide", "display"} => IS_ON = Unwrap(ONOFF)
  /\ (Decided /\ ~IS_ON) => (CUR_STATE = STATE_STOPPED /\ decided = "Stopped")

C2_Witness ==
  /\ t0pc = "display" /\ ONOFF = Some(FALSE)
  /\ PHOTO_CELL = 321 /\ prevDecided = "Right" /\ decided = "Stopped"

\* C3: the compare registers written in a cycle's step 1 hold the widths of the
\* command decided by the cycle before, and deciding a command leaves the
\* registers alone until the next cycle's step 1.
C3_OnePeriodDelay ==
  /\ (t0pc \in {"adc", "flag", "decide"} /\ decided # "none")
        => << cc1, cc2 >> = TableWidths(decided)
  /\ (t0pc \in {"display", "idle"} /\ prevDecided # "none")
        => << cc1, cc2 >> = TableWidths(prevDecided)

C3_Witness ==
  /\ t0pc = "display" /\ prevDecided = "Left" /\ decided = "Back"
  /\ cc1 = 2500 /\ cc2 = 1500

\* main has written cc[1] and cc[2].
Configured == mainpc \notin {"take", "halted", "gpiote", "ppi", "timer_cfg"}

\* After step 1 the registers hold the current command's fixed widths, and the
\* stored command with its two speeds is one of the five profiles.
C4_ProfileParts ==
  /\ t0pc \in {"adc", "flag", "decide"}
        => << cc1, cc2 >> = TableWidths(CUR_STATE.state)
  /\ << CUR_STATE.lspeed, CUR_STATE.rspeed >> = TableWidths(CUR_STATE.state)
  /\ CUR_STATE.state \in CarState

\* C4 as claimed: after step 1 of a cycle the compare registers hold the fixed
\* profile of the current command, the stored command and speeds always form
\* one of the five profiles, and in every reachable state each compare register
\* is one of 500, 1500, 2500.
C4_AsClaimed ==
  /\ C4_ProfileParts
  /\ cc1 \in {500, 1500, 2500} /\ cc2 \in {500, 1500, 2500}

\* C4 amended: the same, with the register values restricted to 500, 1500, 2500
\* in every state from main's own writes of cc[1] and cc[2] onward.
C4_Profiles ==
  /\ C4_ProfileParts
  /\ Configured => (cc1 \in {500, 1500, 2500} /\ cc2 \in {500, 1500, 2500})

C4_Witness ==
  /\ t0pc = "adc" /\ CUR_STATE.state = "Left" /\ cc1 = 2500 /\ cc2 = 1500
  /\ prevDecided = "Back"

\* C5: a failed sensor read does not stop the cycle: the handler goes on to its
\* decision and display request, and both are those of a reading of 0 with the
\* same enable flag (Left and the left arrow when enabled, Stopped and the
\* smile when disabled).
C5_ReadFailure ==
  /\ active = "TIMER0" => ENABLED TIMER0
  /\ (lastRead = "err" /\ t0pc \in {"flag", "decide", "display", "idle"})
        => PHOTO_CELL = 0
  /\ (lastRead = "err" /\ t0pc \in {"display", "idle"})
        => /\ IS_ON => (CUR_STATE = STATE_LEFT /\ decided = "Left")
           /\ ~IS_ON => (CUR_STATE = STATE_STOPPED /\ decided = "Stopped")
  /\ (lastRead = "err" /\ t0pc = "idle")
        => shown = (IF IS_ON THEN ARROW_LEFT ELSE SMILE)

C5_Witness ==
  /\ t0pc = "idle" /\ lastRead = "err" /\ IS_ON
  /\ prevDecided = "Right" /\ decided = "Left" /\ shown = ARROW_LEFT

\* C6: while TIMER0 runs, each servo output is high exactly while the counter is
\* below the channel's compare register; it rises only at the period start
\* (COMPARE0, counter cleared) and falls only when the counter reaches the
\* channel's own compare value, also in periods whose compare value the control
\* cycle has changed.
C6_PulseShape ==
  /\ [](running => /\ (out0 = 1) <=> (cnt < cc1)
                   /\ (out1 = 1) <=> (cnt < cc2))
  /\ [][running =>
          /\ (out0 = 0 /\ out0' = 1) => (cnt' = 0 /\ events_compare0' = 1)
          /\ (out1 = 0 /\ out1' = 1) => (cnt' = 0 /\ events_compare0' = 1)
          /\ (out0 = 1 /\ out0' = 0) => (cnt' = cc1 /\ cc1' = cc1)
          /\ (out1 = 1 /\ out1' = 0) => (cnt' = cc2 /\ cc2' = cc2)]_vars

C6_Witness ==
  /\ running /\ prevDecided = "Stopped" /\ decided = "Forward"
  /\ t0pc \in {"adc", "flag", "decide"}
  /\ cc1 = 2500 /\ cc2 = 500 /\ cnt = 500 /\ out0 = 1 /\ out1 = 0

\* C7: when a cycle ends, the image handed to the display is the icon of the
\* command that cycle decided (smile, down, up, left, right arrow for Stopped,
\* Forward, Back, Left, Right), and at no time is it the icon of a command
\* older than the one decided by the cycle before.
C7_Icon ==
  /\ (t0pc = "idle" /\ decided # "none") => shown = TableIcon(decided)
  /\ shown \in {TableIcon(decided), TableIcon(prevDecided)}

C7_Witness ==
  /\ t0pc = "idle" /\ decided = "Forward" /\ prevDecided = "Back"
  /\ shown = ARROW_DOWN

\* C8: after a Poller iteration the flag is false if button B was asserted
\* (whether or not A was), true if only A was, and what it was before if
\* neither was.
C8_PollerIteration ==
  mainpc = "button_a" =>
     ONOFF = Some(IF iterB THEN FALSE ELSE IF iterA THEN TRUE ELSE iterOld)

C8_Witness ==
  /\ mainpc = "button_a" /\ iterA /\ iterB /\ iterOld
  /\ ONOFF = Some(FALSE)

\* C9: until the first control cycle the command is Stopped, the stored reading
\* 0 and the cached flag false; no handler runs before the interrupts are
\* unmasked, by when the published flag is false; and the first control cycle
\* leaves 1500 in both compare registers whatever the reading and the buttons.
C9_PowerUp ==
  /\ cycles = 0 => (CUR_STATE = STATE_STOPPED /\ PHOTO_CELL = 0 /\ ~IS_ON)
  /\ nvic = {} => (cycles = 0 /\ active = "none" /\ t0pc = "idle")
  /\ mainpc = "unmask" => ONOFF = Some(FALSE)
  /\ nvic # {} => IsSome(ONOFF)
  /\ cycles = 1 => (cc1 = 1500 /\ cc2 = 1500)

C9_Witness ==
  /\ cycles = 1 /\ t0pc = "display" /\ IS_ON /\ PHOTO_CELL = 321
  /\ decided = "Right" /\ cc1 = 1500 /\ cc2 = 1500

\* C10: when Board::take() fails main halts for good: nothing is unmasked, no
\* control cycle has run or will run, no compare register has been written and
\* no shared cell is filled.
C10_HaltOnFailure ==
  /\ [](mainpc = "halted" =>
          /\ nvic = {} /\ active = "none" /\ cycles = 0 /\ t0pc = "idle"
          /\ ~running /\ ~inten /\ ppi = {}
          /\ cc0 = 0 /\ cc1 = 0 /\ cc2 = 0
          /\ ONOFF = None /\ SERVO_TIMER = None
          /\ DISPLAY = None /\ ANALOG = None)
  /\ [][mainpc = "halted" =>
          UNCHANGED << mainVars, cellVars, cpuVars, timerVars, pinVars,
                       cycleVars, shown, t1event, histVars >>]_vars

C10_Witness == mainpc = "halted" /\ btnA /\ btnB


\* The step in which the TIMER0 handler writes cc[1] and cc[2].
WriteStep == t0pc = "idle" /\ t0pc' = "adc"

\* C11 as claimed: a compare write of the control cycle made while a pulse is
\* in progress leaves the falling edge of that pulse where it was, taking
\* effect only in the next period.
C11_AsClaimed ==
  [][WriteStep => /\ out0 = 1 => cc1' = cc1
                  /\ out1 = 1 => cc2' = cc2]_vars

\* C11 amended: a compare write of the control cycle that changes a register is
\* made at the start of a period, while the pulse is high and the counter is
\* below both the old and the new value, so it moves the one falling edge of
\* the pulse in progress to the new value; no falling edge is removed or
\* duplicated: a pin falls only when the counter reaches its register and rises
\* only at the period start.
C11_WriteMovesEdge ==
  /\ [][WriteStep =>
          /\ cc1' # cc1 => (out0 = 1 /\ cnt < cc1 /\ cnt < cc1')
          /\ cc2' # cc2 => (out1 = 1 /\ cnt < cc2 /\ cnt < cc2')]_vars
  /\ [][running =>
          /\ (out0 # out0') => (IF out0 = 1 THEN cnt' = cc1 ELSE cnt' = 0)
          /\ (out1 # out1') => (IF out1 = 1 THEN cnt' = cc2 ELSE cnt' = 0)
          /\ (cnt' = 0 /\ cnt # 0) => (out0' = 1 /\ out1' = 1)
          /\ (cnt < cc1 /\ cnt' >= cc1) => out0' = 0
          /\ (cnt < cc2 /\ cnt' >= cc2) => out1' = 0]_vars

C11_Witness ==
  /\ t0pc = "adc" /\ prevDecided = "Stopped" /\ decided = "Back"
  /\ cnt > 0 /\ cnt < 500 /\ out0 = 1 /\ out1 = 1 /\ cc1 = 500 /\ cc2 = 2500


\* C12: every step that reads or writes a shared cell (ONOFF, SERVO_TIMER,
\* ANALOG, DISPLAY) is taken by the context that is inside the critical
\* section; a critical section is entered only when no context is inside one,
\* and while a context is inside, no other context executes.
C12_CriticalSections ==
  /\ [](/\ cs = "main" => active = "none"
        /\ cs = "TIMER0" => active = "TIMER0"
        /\ cs = "TIMER1" => active = "TIMER1")
  /\ [][cs' # cs => (cs = "none" \/ cs' = "none")]_vars
  /\ [][/\ cellVars' # cellVars => cs = "main"
        /\ WriteStep => cs' = "TIMER0"
        /\ (t0pc = "adc" /\ t0pc' # "adc") => cs = "TIMER0"
        /\ (t0pc = "flag" /\ t0pc' # "flag") => cs = "TIMER0"
        /\ (t0pc = "display" /\ t0pc' # "display") => cs = "TIMER0"
        /\ shown' # shown => cs = "TIMER0"
        /\ (t1event /\ ~t1event') => cs = "TIMER1"
        /\ (cs = "main" /\ cs' = "main") => UNCHANGED << cellVars, cycleVars, shown >>
        /\ (cs = "TIMER0" /\ cs' = "TIMER0") => UNCHANGED << mainVars, cellVars >>
       ]_vars

C12_Witness ==
  /\ cs = "main" /\ mainpc = "publish_b" /\ ONOFF = Some(TRUE)
  /\ Irq0 /\ t1event /\ "TIMER1" \in nvic


\* All four shared cells hold a value.
Populated ==
  IsSome(ONOFF) /\ IsSome(SERVO_TIMER) /\ IsSome(DISPLAY) /\ IsSome(ANALOG)

\* C13: the four cells are unset until main's critical section fills them, no
\* interrupt is unmasked before that, and whenever a handler runs all four are
\* set, so no invocation skips its compare write and acknowledge, its sensor
\* read or its flag read.
C13_PopulatedBeforeUnmask ==
  /\ mainpc \in {"take", "halted", "gpiote", "ppi", "timer_cfg", "timer_start",
                 "intenset", "populate"}
        => (cellVars = << None, None, None, None >> /\ nvic = {})
  /\ (nvic # {} \/ active # "none") => Populated
  /\ t0pc # "idle" => events_compare0 = 0
  /\ t0pc \in {"flag", "decide", "display"} => lastRead \in {"ok", "err"}
  /\ t0pc \in {"decide", "display"} => IS_ON = Unwrap(ONOFF)

C13_Witness ==
  /\ cycles = 1 /\ t0pc = "flag" /\ lastRead = "ok" /\ PHOTO_CELL = 321
  /\ events_compare0 = 0 /\ Populated


\* The order of the handler's positions.
CycleOrder ==
  { << "idle", "adc" >>, << "adc", "flag" >>, << "flag", "decide" >>,
    << "decide", "display" >>, << "display", "idle" >> }

\* C14: a control cycle takes its steps in the order compare writes and
\* acknowledge, sensor read, flag read, decision, display request, each step
\* changing only what is its own; from the compare writes to the flag read the
\* handler stays inside one critical section, and no publish of the flag, no
\* Poller step and no display refresh falls in between.
C14_CycleOrder ==
  /\ [](t0pc \in {"adc", "flag"} => (cs = "TIMER0" /\ active = "TIMER0"))
  /\ [](t0pc = "decide" => cs = "none")
  /\ [][/\ t0pc' # t0pc => << t0pc, t0pc' >> \in CycleOrder
        /\ WriteStep =>
             /\ << cc1', cc2' >> = << CUR_STATE.lspeed, CUR_STATE.rspeed >>
             /\ events_compare0' = 0
             /\ UNCHANGED << CUR_STATE, PHOTO_CELL, IS_ON, shown >>
        /\ << cc1, cc2 >>' # << cc1, cc2 >> => (WriteStep \/ mainpc = "timer_cfg")
        /\ PHOTO_CELL' # PHOTO_CELL => (t0pc = "adc" /\ t0pc' = "flag")
        /\ IS_ON' # IS_ON => (t0pc = "flag" /\ t0pc' = "decide")
        /\ (t0pc = "flag" /\ t0pc' = "decide") => IS_ON' = Unwrap(ONOFF)
        /\ CUR_STATE' # CUR_STATE => (t0pc = "decide" /\ t0pc' = "display")
        /\ shown' # shown => (t0pc = "display" /\ t0pc' = "idle")
        /\ t0pc \in {"adc", "flag"} =>
             /\ UNCHANGED << mainVars, ONOFF >>
             /\ ~(t1event /\ ~t1event')
             /\ active' = "TIMER0"
       ]_vars

C14_Witness ==
  /\ t0pc = "flag" /\ cs = "TIMER0"
  /\ mainpc = "publish_a" /\ ONOFF = Some(FALSE) /\ t1event
  /\ lastRead = "ok" /\ PHOTO_CELL = 65


\* The step in which COMPARE0 matches: a period starts.
PeriodStart == running /\ cnt # 0 /\ cnt' = 0

\* C15: control cycles do not nest, period starts and invocations alternate one
\* to one (a period starts only when the previous start's event has been taken
\* and its invocation has returned; an invocation begins only on a pending event
\* and consumes it), and each invocation writes the command decided by the
\* invocation before it, which nothing changes in between.
C15_Sequential ==
  /\ [](t0pc # "idle" <=> active = "TIMER0")
  /\ [][/\ WriteStep => /\ active = "none" /\ active' = "TIMER0"
                        /\ events_compare0 = 1 /\ events_compare0' = 0
                        /\ decided # "none" =>
                             /\ CUR_STATE.state = decided
                             /\ << cc1', cc2' >> = TableWidths(decided)
        /\ PeriodStart => /\ events_compare0 = 0 /\ events_compare0' = 1
                          /\ t0pc = "idle"
        /\ (t0pc = "decide" /\ t0pc' = "display") => decided' = CUR_STATE'.state
        /\ CUR_STATE' # CUR_STATE => (t0pc = "decide" /\ t0pc' = "display")
       ]_vars

C15_Witness ==
  /\ cycles = 2 /\ t0pc = "adc" /\ decided = "Right" /\ prevDecided = "Left"
  /\ cc1 = 1500 /\ cc2 = 500 /\ events_compare0 = 0


\* C16 as claimed: once the Poller has completed an iteration with both buttons
\* asserted and both have stayed asserted since, a control cycle reads the
\* enable flag as false and decides Stopped.
C16_AsClaimed ==
  (held = HeldCompleted /\ t0pc \in {"decide", "display"}) =>
     /\ ~IS_ON
     /\ t0pc = "display" => CUR_STATE = STATE_STOPPED

\* C17: with the flag published false and no publish of true since, the first
\* control cycle begun afterwards decides Stopped, the second writes
\* (1500, 1500), and the registers and the command stay so until true is
\* published.
C17_DisableResponse ==
  /\ [](offCycles >= 1 =>
          /\ ONOFF = Some(FALSE)
          /\ t0pc \in {"idle", "display"} =>
               CUR_STATE = STATE_STOPPED /\ decided = "Stopped")
  /\ [](offCycles = 2 => cc1 = NEUTRAL /\ cc2 = NEUTRAL)
  /\ [][/\ (WriteStep /\ ONOFF = Some(FALSE)) => offCycles' = offCycles + 1 \/ offCycles' = 2
        /\ (offCycles = 1 /\ offCycles' = 2) => (WriteStep /\ cc1' = NEUTRAL /\ cc2' = NEUTRAL)
        /\ (offCycles >= 1 /\ offCycles' < offCycles) =>
              (mainpc = "publish_a" /\ ONOFF' = Some(TRUE))
       ]_vars

C17_Witness ==
  /\ offCycles = 2 /\ t0pc = "adc"
  /\ prevDecided = "Forward" /\ decided = "Stopped"
  /\ cc1 = NEUTRAL /\ cc2 = NEUTRAL /\ btnA

\* C18 as claimed: while button A has never been asserted, the compare registers
\* hold (1500, 1500) in every reachable state and every cycle decides Stopped.
C18_AsClaimed ==
  ~aSeen => /\ cc1 = NEUTRAL /\ cc2 = NEUTRAL
            /\ decided \in {"none", "Stopped"}

\* C18: the enable flag is written only by main (false when the cells are
\* populated, then by the polling loop); while button A has never been asserted
\* every cycle decides Stopped, whatever the converter returns, and the compare
\* registers hold (1500, 1500) from the time main has set them.
C18_NeverEnabled ==
  /\ [](~aSeen => /\ ONOFF \in {None, Some(FALSE)}
                  /\ ~IS_ON
                  /\ CUR_STATE = STATE_STOPPED
                  /\ decided \in {"none", "Stopped"}
                  /\ Configured => (cc1 = NEUTRAL /\ cc2 = NEUTRAL))
  /\ [][ONOFF' # ONOFF =>
          /\ active = "none" /\ cs = "main"
          /\ \/ mainpc = "populate" /\ ONOFF' = Some(FALSE)
             \/ mainpc = "publish_a" /\ iterA /\ ONOFF' = Some(TRUE)
             \/ mainpc = "publish_b" /\ iterB /\ ONOFF' = Some(FALSE)
       ]_vars

C18_Witness ==
  /\ ~aSeen /\ cycles = 2 /\ t0pc = "display" /\ decided = "Stopped"
  /\ lastRead = "ok" /\ PHOTO_CELL = 65 /\ mainpc = "publish_b"
  /\ cc1 = NEUTRAL /\ cc2 = NEUTRAL

\* A step of the polling loop, and a step of the display timer's handler.
PollerStep ==
  /\ mainpc \in {"button_a", "publish_a", "button_b", "publish_b"}
  /\ mainpc' # mainpc \/ (cs # "main" /\ cs' = "main")

RefreshStep == active = "TIMER1" \/ active' = "TIMER1"

\* C19: a step of the polling loop or of the display refresh leaves the
\* handler's statics and the compare registers unchanged; once set, the timer
\* and converter cells are never written again; the statics change only inside
\* a TIMER0 invocation.
C19_Frame ==
  [][/\ (PollerStep \/ RefreshStep) =>
          UNCHANGED << CUR_STATE, PHOTO_CELL, IS_ON, cc1, cc2 >>
     /\ IsSome(SERVO_TIMER) => SERVO_TIMER' = SERVO_TIMER
     /\ IsSome(ANALOG) => ANALOG' = ANALOG
     /\ << CUR_STATE, PHOTO_CELL, IS_ON >>' # << CUR_STATE, PHOTO_CELL, IS_ON >> =>
          /\ active = "TIMER0" /\ active' = "TIMER0"
          /\ t0pc \in {"adc", "flag", "decide"}
    ]_vars

C19_Witness ==
  /\ active = "TIMER1" /\ mainpc = "publish_a" /\ iterOld
  /\ CUR_STATE = STATE_LEFT /\ IS_ON /\ PHOTO_CELL = 64
  /\ << cc1, cc2 >> = TableWidths("Back")

\* The program counters of the polling loop.
Loop == {"button_a", "publish_a", "button_b", "publish_b"}

\* C20: once main is in its loop it stays there and the core always has a step
\* to take; every critical section entered is left, every TIMER0 invocation
\* begun reaches its display request and returns, and TIMER0 invocations begin
\* again and again.
C20_NoTerminalState ==
  /\ [](mainpc \in Loop => ENABLED << main \/ TIMER0 \/ TIMER1 >>_vars)
  /\ [][(mainpc \in Loop) => (mainpc' \in Loop)]_vars
  /\ (cs # "none") ~> (cs = "none")
  /\ (t0pc = "adc") ~> (t0pc = "display")
  /\ (t0pc = "display") ~> (t0pc = "idle")
  /\ (mainpc \in Loop) ~> (t0pc = "adc")

C20_Witness ==
  /\ mainpc = "publish_a" /\ t0pc = "display" /\ cs = "TIMER0"
  /\ CUR_STATE = STATE_LEFT /\ << cc1, cc2 >> = TableWidths("Forward")
  /\ ~Irq0 /\ t1event

====
